---- MODULE Spec2Model ----
(***************************************************************************)
(* The session driver (main) of codeplan, in its four generations:         *)
(*   "git"   src/unnamed/part_001 lines 1-286   (git ls-files, plan.md)    *)
(*   "plan"  src/index.ts lines 1-375           (globby, plan.md)          *)
(*   "resp"  src/unnamed/part_001 lines 288-748 (prompt.md, confirmation)  *)
(*   "rules" src/unnamed/part_000               (credential check, rules,  *)
(*                                               remote token count)       *)
(* One run of one generation is one behaviour; the generation, the command *)
(* line and the file system found at start are chosen in Init; "git" and   *)
(* "plan" parse neither --help nor --think.                                *)
(* Spec is main, and FairSpec is main run by an event loop that lets every  *)
(* read, write and remote call under way settle.  The helpers of main are  *)
(* specified on their own, with their arguments chosen in Init and their   *)
(* calls as the steps: SpecCost (calculateTokenUsageAndCost), SpecSplit    *)
(* (splitFilesByDate), SpecPrompt (the message content), SpecTree          *)
(* (createTree, printTree), SpecRender (printTreeWithTokens,               *)
(* printLargestFiles) and SpecLoad (getFilesWithContent).                  *)
(***************************************************************************)
EXTENDS Integers, Sequences, FiniteSets, TLC

VARIABLES env, pc, exitStatus, outFile, terminal, reads, fileReads, inputs,
          countCalls, streamCalls, state, received, handlers, calc

vars == <<env, pc, exitStatus, outFile, terminal, reads, fileReads, inputs,
          countCalls, streamCalls, state, received, handlers, calc>>

\* Bounds of the model.
MaxInputs == 2
MaxEvents == 3
MaxFiles == 2

Variants == {"git", "plan", "resp", "rules"}

\* ------------------------------------------------------------ values

\* One write to the terminal, or one piece of file text: a tag and, for a
\* stream delta, the index of the stream event that carried it.
W(w) == [w |-> w, n |-> 0]
Delta(i) == [w |-> "delta", n |-> i]
Separator == W("\n\n")

\* No read of a matched file is in flight.
NoFileReads == [op \in {"files", "rules"} |-> <<>>]

\* The workbench of the function specifications is not in use.
Idle == [op |-> "none"]

Absent == [exists |-> FALSE, content |-> <<>>]
Present(text) == [exists |-> TRUE, content |-> text]
Stale == Present(<<W("stale")>>)

\* ------------------------------------------------------------ variants

HasHelp(v) == v \in {"resp", "rules"}
ConcurrentReading(v) == v = "rules"
ThinkingEnabled(e) == IF e.variant \in {"resp", "rules"} THEN e.think ELSE TRUE
TextSetsState(v) == v \in {"resp", "rules"}

\* The statements of main up to the streaming request, in program order.
Flow(v) ==
  CASE v = "rules" -> <<"top", "checkCredential", "deleteOutput", "checkPrompt",
                        "checkInclude", "reading", "summarize", "countTokens",
                        "confirm", "confirmLoop", "stream">>
    [] v = "resp"  -> <<"top", "deleteOutput", "checkPrompt", "reading",
                        "summarize", "confirm", "confirmLoop", "stream">>
    [] v = "plan"  -> <<"deleteOutput", "checkInclude", "reading", "checkPrompt",
                        "summarize", "stream">>
    [] v = "git"   -> <<"deleteOutput", "checkInclude", "reading", "checkPrompt",
                        "stream">>

After(v, p) ==
  LET f == Flow(v)
      i == CHOOSE k \in 1..Len(f) : f[k] = p
  IN  f[i + 1]

\* ------------------------------------------------------------ confirmation input

Whitespace == {" ", "\n"}

RECURSIVE TrimStart(_)
TrimStart(s) ==
  IF s # <<>> /\ Head(s) \in Whitespace THEN TrimStart(Tail(s)) ELSE s

RECURSIVE TrimEnd(_)
TrimEnd(s) ==
  IF s # <<>> /\ s[Len(s)] \in Whitespace
  THEN TrimEnd(SubSeq(s, 1, Len(s) - 1)) ELSE s

trim(s) == TrimEnd(TrimStart(s))

LowerChar(c) == CASE c = "Y" -> "y" [] c = "N" -> "n" [] OTHER -> c

toLowerCase(s) == [i \in 1..Len(s) |-> LowerChar(s[i])]

ResponseNoLower(chunk) == trim(chunk)

\* const response = Buffer.from(chunk).toString().trim().toLowerCase();
Response(chunk) == toLowerCase(trim(chunk))

\* The chunks the terminal can deliver.
Chunks == { <<"y">>, <<" ", "Y", "\n">>, <<"n">>, <<"N", "\n">>,
            <<"x">>, <<"\n">> }

\* ------------------------------------------------------------ final message

Kinds == {"thinking", "text"}

\* message.content: the blocks the stream events accumulate to.  Event i
\* carries delta i; an event with new = TRUE opens a block.
RECURSIVE Blocks(_)
Blocks(evs) ==
  IF evs = <<>> THEN <<>>
  ELSE LET n == Len(evs)
           before == Blocks(SubSeq(evs, 1, n - 1))
           e == evs[n]
       IN  IF e.new
           THEN Append(before, [type |-> e.kind, text |-> <<Delta(n)>>])
           ELSE LET b == before[Len(before)]
                IN  [before EXCEPT ![Len(before)] =
                       [type |-> b.type, text |-> Append(b.text, Delta(n))]]

RECURSIVE join(_, _)
join(texts, sep) ==
  IF texts = <<>> THEN <<>>
  ELSE IF Len(texts) = 1 THEN texts[1]
  ELSE texts[1] \o <<sep>> \o join(Tail(texts), sep)

RECURSIVE filter(_, _)
filter(blocks, type) ==
  IF blocks = <<>> THEN <<>>
  ELSE IF Head(blocks).type = type
       THEN <<Head(blocks)>> \o filter(Tail(blocks), type)
       ELSE filter(Tail(blocks), type)

contentTextUnfiltered(content) ==
  join([i \in 1..Len(content) |-> content[i].text], Separator)

\* message.content.filter(text).map(block => block.text).join("\n\n")
contentText(content) ==
  LET kept == filter(content, "text")
  IN  join([i \in 1..Len(kept) |-> kept[i].text], Separator)

\* ------------------------------------------------------------ initial state

Init ==
  /\ env \in [variant : Variants, help : BOOLEAN, think : BOOLEAN,
              apiKey : BOOLEAN, promptFile : BOOLEAN, include : 0..1,
              priorOutput : BOOLEAN]
  /\ ~HasHelp(env.variant) => ~env.help /\ ~env.think
  /\ pc = Head(Flow(env.variant))
  /\ exitStatus = -1
  /\ outFile = IF env.priorOutput THEN Stale ELSE Absent
  /\ terminal = <<>>
  /\ reads = [op \in {"tree", "files", "rules"} |-> "idle"]
  /\ fileReads = NoFileReads
  /\ calc = Idle
  /\ inputs = <<>>
  /\ countCalls = 0
  /\ streamCalls = 0
  /\ state = "null"
  /\ received = <<>>
  /\ handlers = <<>>

\* ------------------------------------------------------------ control

Write(w) == terminal' = Append(terminal, w)
Goto(p) == pc' = p /\ exitStatus' = exitStatus
Exit(status) == pc' = "exited" /\ exitStatus' = status

\* main().catch((error) => { console.error(error.message); process.exit(1); })
Throw == Write(W("error")) /\ Exit(1)

\* if (values.help) { console.log(usage); process.exit(0); }
Top ==
  /\ pc = "top"
  /\ IF env.help
     THEN Write(W("usage")) /\ Exit(0)
     ELSE terminal' = terminal /\ Goto(After(env.variant, pc))
  /\ UNCHANGED <<env, calc, fileReads, outFile, reads, inputs, countCalls, streamCalls,
                 state, received, handlers>>

\* if (!process.env.ANTHROPIC_API_KEY) { console.error(...); process.exit(1); }
CheckCredential ==
  /\ pc = "checkCredential"
  /\ IF ~env.apiKey
     THEN Write(W("credentialError")) /\ Exit(1)
     ELSE terminal' = terminal /\ Goto(After(env.variant, pc))
  /\ UNCHANGED <<env, calc, fileReads, outFile, reads, inputs, countCalls, streamCalls,
                 state, received, handlers>>

\* if (existsSync(RESPONSE_FILE)) { await fs.unlink(RESPONSE_FILE); }
DeleteOutput ==
  /\ pc = "deleteOutput"
  /\ outFile' = Absent
  /\ Goto(After(env.variant, pc))
  /\ UNCHANGED <<env, calc, fileReads, terminal, reads, inputs, countCalls, streamCalls,
                 state, received, handlers>>

\* if (!existsSync(PROMPT_FILE)) { ...; process.exit(1) }  ("rules", "resp")
\* if (!existsSync(promptFilePath)) { console.log(...); return; } ("plan", "git")
CheckPrompt ==
  /\ pc = "checkPrompt"
  /\ IF ~env.promptFile
     THEN /\ Write(W("promptError"))
          /\ IF env.variant \in {"rules", "resp"} THEN Exit(1) ELSE Goto("done")
     ELSE terminal' = terminal /\ Goto(After(env.variant, pc))
  /\ UNCHANGED <<env, calc, fileReads, outFile, reads, inputs, countCalls, streamCalls,
                 state, received, handlers>>

\* if (include.length === 0) { console.error(...); process.exit(1); }
CheckInclude ==
  /\ pc = "checkInclude"
  /\ IF env.include = 0
     THEN Write(W("includeError")) /\ Exit(1)
     ELSE terminal' = terminal /\ Goto(After(env.variant, pc))
  /\ UNCHANGED <<env, calc, fileReads, outFile, reads, inputs, countCalls, streamCalls,
                 state, received, handlers>>

\* ------------------------------------------------------------ reading

Loads == {"files", "rules"}

Needed(v) == IF v = "rules" THEN {"tree", "files", "rules"} ELSE {"tree", "files"}

\* "rules": Promise.all([tree, files, rules]); the others await the tree
\* listing and then the matched files.
StartReading ==
  /\ pc = "reading"
  /\ \A op \in DOMAIN reads : reads[op] = "idle"
  /\ reads' = IF ConcurrentReading(env.variant)
              THEN [op \in DOMAIN reads |-> "pending"]
              ELSE [reads EXCEPT !["tree"] = "pending"]
  /\ IF HasHelp(env.variant) THEN Write(W("header")) ELSE terminal' = terminal
  /\ UNCHANGED <<env, calc, fileReads, pc, exitStatus, outFile, inputs, countCalls, streamCalls,
                 state, received, handlers>>

\* The promise of one load is settled: main goes on once every load it
\* awaits is done; the earlier generations start the file load only then.
Settle(next) ==
  /\ reads' = next
  /\ IF \A o \in Needed(env.variant) : next[o] = "done"
     THEN Goto(After(env.variant, pc))
     ELSE UNCHANGED <<pc, exitStatus>>

\* getFileTree resolves.
CompleteRead(op) ==
  /\ pc = "reading"
  /\ op = "tree"
  /\ reads[op] = "pending"
  /\ LET done == [reads EXCEPT ![op] = "done"]
     IN  Settle(IF ConcurrentReading(env.variant) THEN done
                ELSE [done EXCEPT !["files"] = "pending"])
  /\ UNCHANGED <<env, calc, fileReads, outFile, terminal, inputs, countCalls,
                 streamCalls, state, received, handlers>>

\* getFilesWithContent: the listing resolves with n paths and files.map
\* starts one read per path; Promise.all of no read resolves at once.
ListPaths(op, n) ==
  /\ pc = "reading"
  /\ op \in Loads
  /\ reads[op] = "pending"
  /\ IF n = 0
     THEN /\ Settle([reads EXCEPT ![op] = "done"])
          /\ UNCHANGED fileReads
     ELSE /\ reads' = [reads EXCEPT ![op] = "reading"]
          /\ fileReads' = [fileReads EXCEPT ![op] = [i \in 1..n |-> "pending"]]
          /\ UNCHANGED <<pc, exitStatus>>
  /\ UNCHANGED <<env, calc, outFile, terminal, inputs, countCalls,
                 streamCalls, state, received, handlers>>

\* file.text() of the i-th path resolves; the load resolves with the last
\* of them and the reads are settled and gone.
CompleteFileRead(op, i) ==
  /\ pc = "reading"
  /\ op \in Loads
  /\ reads[op] = "reading"
  /\ i \in DOMAIN fileReads[op]
  /\ fileReads[op][i] = "pending"
  /\ LET after == [fileReads[op] EXCEPT ![i] = "done"]
     IN  IF \A j \in DOMAIN after : after[j] = "done"
         THEN /\ fileReads' = [fileReads EXCEPT ![op] = <<>>]
              /\ Settle([reads EXCEPT ![op] = "done"])
         ELSE /\ fileReads' = [fileReads EXCEPT ![op] = after]
              /\ UNCHANGED <<reads, pc, exitStatus>>
  /\ UNCHANGED <<env, calc, outFile, terminal, inputs, countCalls,
                 streamCalls, state, received, handlers>>

\* A loader that drops the file whose read rejects and goes on.
FailFileReadSkipped(op, i) ==
  /\ pc = "reading"
  /\ op \in Loads
  /\ reads[op] = "reading"
  /\ i \in DOMAIN fileReads[op]
  /\ fileReads[op][i] = "pending"
  /\ LET after == [fileReads[op] EXCEPT ![i] = "failed"]
     IN  IF \A j \in DOMAIN after : after[j] # "pending"
         THEN /\ fileReads' = [fileReads EXCEPT ![op] = after]
              /\ Settle([reads EXCEPT ![op] = "done"])
         ELSE /\ fileReads' = [fileReads EXCEPT ![op] = after]
              /\ UNCHANGED <<reads, pc, exitStatus>>
  /\ UNCHANGED <<env, calc, outFile, terminal, inputs, countCalls,
                 streamCalls, state, received, handlers>>

\* file.text() of the i-th path rejects: Promise.all rejects with it, so
\* does the load, and so does main; the other reads are not waited for.
FailFileRead(op, i) ==
  /\ pc = "reading"
  /\ op \in Loads
  /\ reads[op] = "reading"
  /\ i \in DOMAIN fileReads[op]
  /\ fileReads[op][i] = "pending"
  /\ fileReads' = [fileReads EXCEPT ![op][i] = "failed"]
  /\ reads' = [reads EXCEPT ![op] = "failed"]
  /\ Throw
  /\ UNCHANGED <<env, calc, outFile, inputs, countCalls, streamCalls,
                 state, received, handlers>>

\* A listing that rejects and leaves main waiting for it.
FailReadUnhandled(op) ==
  /\ pc = "reading"
  /\ reads[op] = "pending"
  /\ reads' = [reads EXCEPT ![op] = "failed"]
  /\ UNCHANGED <<env, calc, fileReads, pc, exitStatus, terminal, outFile, inputs,
                 countCalls, streamCalls, state, received, handlers>>

\* A listing rejects (globby, git ls-files): main rejects.
FailRead(op) ==
  /\ pc = "reading"
  /\ reads[op] = "pending"
  /\ reads' = [reads EXCEPT ![op] = "failed"]
  /\ Throw
  /\ UNCHANGED <<env, calc, fileReads, outFile, inputs, countCalls, streamCalls,
                 state, received, handlers>>

Summarize ==
  /\ pc = "summarize"
  /\ Write(W("summary"))
  /\ Goto(After(env.variant, pc))
  /\ UNCHANGED <<env, calc, fileReads, outFile, reads, inputs, countCalls, streamCalls,
                 state, received, handlers>>

\* const totalTokens = await anthropic.messages.countTokens(...)
CountTokens ==
  /\ pc = "countTokens"
  /\ countCalls' = countCalls + 1
  /\ Write(W("tokens"))
  /\ Goto(After(env.variant, pc))
  /\ UNCHANGED <<env, calc, fileReads, outFile, reads, inputs, streamCalls,
                 state, received, handlers>>

CountTokensFail ==
  /\ pc = "countTokens"
  /\ countCalls' = countCalls + 1
  /\ Throw
  /\ UNCHANGED <<env, calc, fileReads, outFile, reads, inputs, streamCalls,
                 state, received, handlers>>

\* ------------------------------------------------------------ confirmation

\* await Bun.write(Bun.stdout, "Continue? (y/n): ");
ConfirmPrompt ==
  /\ pc = "confirm"
  /\ Write(W("Continue? (y/n): "))
  /\ Goto(After(env.variant, pc))
  /\ UNCHANGED <<env, calc, fileReads, outFile, reads, inputs, countCalls, streamCalls,
                 state, received, handlers>>

\* One iteration of for await (const chunk of Bun.stdin.stream()).
ConfirmRead(chunk) ==
  /\ pc = "confirmLoop"
  /\ Len(inputs) < MaxInputs
  /\ inputs' = Append(inputs, chunk)
  /\ IF Response(chunk) = <<"y">>
     THEN Write(W("Making request...")) /\ Goto(After(env.variant, pc))
     ELSE IF Response(chunk) = <<"n">>
     THEN Write(W("Stopping...")) /\ Exit(0)
     ELSE Write(W("Invalid input, please use y or n"))
          /\ UNCHANGED <<pc, exitStatus>>
  /\ UNCHANGED <<env, calc, fileReads, outFile, reads, countCalls, streamCalls,
                 state, received, handlers>>

\* The input stream ends: the for await loop ends without a break.
ConfirmEOF ==
  /\ pc = "confirmLoop"
  /\ Goto(After(env.variant, pc))
  /\ UNCHANGED <<env, calc, fileReads, outFile, terminal, reads, inputs, countCalls,
                 streamCalls, state, received, handlers>>

\* ------------------------------------------------------------ streaming

\* let state = null; const message = await anthropic.messages.stream(...)
IssueStream ==
  /\ pc = "stream"
  /\ streamCalls' = streamCalls + 1
  /\ state' = "null"
  /\ Goto("streaming")
  /\ UNCHANGED <<env, calc, fileReads, outFile, terminal, reads, inputs, countCalls,
                 received, handlers>>

\* A handler suspended at its first await, between its test of state and its
\* assignment to it: the marker write is issued, the assignment and the
\* write of the delta are still to come.
Suspended(kind, i) == [kind |-> kind, n |-> i]

\* .on("thinking", async (thinkingDelta) => { ... }), up to its first await.
onThinking(i) ==
  IF state = "null"
  THEN /\ Write(W("<THINKING>"))
       /\ handlers' = Append(handlers, Suspended("thinking", i))
       /\ state' = state
  ELSE /\ Write(Delta(i))
       /\ UNCHANGED <<state, handlers>>

\* .on("text", async (textDelta) => { ... }), up to its first await.
onText(i) ==
  IF state = "thinking"
  THEN /\ Write(W("</THINKING>"))
       /\ handlers' = Append(handlers, Suspended("text", i))
       /\ state' = state
  ELSE /\ state' = IF state = "null" /\ TextSetsState(env.variant)
                   THEN "text" ELSE state
       /\ Write(Delta(i))
       /\ handlers' = handlers

\* The stream emits one event; the emitter calls the listener and does not
\* wait for the promise it returns.
Deliver(kind, new) ==
  /\ pc = "streaming"
  /\ env.apiKey
  /\ Len(received) < MaxEvents
  /\ kind = "thinking" => ThinkingEnabled(env)
  /\ (received = <<>> \/ received[Len(received)].kind # kind) => new
  /\ received' = Append(received, [kind |-> kind, new |-> new])
  /\ IF kind = "thinking"
     THEN onThinking(Len(received) + 1)
     ELSE onText(Len(received) + 1)
  /\ UNCHANGED <<env, calc, fileReads, pc, exitStatus, outFile, reads, inputs, countCalls,
                 streamCalls>>

\* The awaited marker write of the oldest suspended handler resolves: the
\* handler assigns state and writes its delta.
Resume ==
  /\ pc \in {"streaming", "finalize", "writeOutput", "done"}
  /\ handlers # <<>>
  /\ LET h == Head(handlers)
     IN  /\ state' = h.kind
         /\ Write(Delta(h.n))
  /\ handlers' = Tail(handlers)
  /\ UNCHANGED <<env, calc, fileReads, pc, exitStatus, outFile, reads, inputs, countCalls,
                 streamCalls, received>>

\* .finalMessage() resolves.
StreamEnd ==
  /\ pc = "streaming"
  /\ env.apiKey
  /\ Goto("finalize")
  /\ UNCHANGED <<env, calc, fileReads, outFile, terminal, reads, inputs, countCalls,
                 streamCalls, state, received, handlers>>

StreamFailSalvage ==
  /\ pc = "streaming"
  /\ outFile' = Present(contentText(Blocks(received)))
  /\ Throw
  /\ UNCHANGED <<env, calc, fileReads, reads, inputs, countCalls, streamCalls,
                 state, received, handlers>>

\* .finalMessage() rejects (network or API failure; always so without a
\* credential): main rejects.
StreamFail ==
  /\ pc = "streaming"
  /\ Throw
  /\ UNCHANGED <<env, calc, fileReads, outFile, reads, inputs, countCalls, streamCalls,
                 state, received, handlers>>

\* const usage = calculateTokenUsageAndCost(message.usage); print outputText
Finalize ==
  /\ pc = "finalize"
  /\ Write(W("usage"))
  /\ Goto("writeOutput")
  /\ UNCHANGED <<env, calc, fileReads, outFile, reads, inputs, countCalls, streamCalls,
                 state, received, handlers>>

\* await Bun.write("response.md", contentText); console.log("Result written")
WriteOutput ==
  /\ pc = "writeOutput"
  /\ outFile' = Present(contentText(Blocks(received)))
  /\ Write(W("written"))
  /\ Goto("done")
  /\ UNCHANGED <<env, calc, fileReads, reads, inputs, countCalls, streamCalls,
                 state, received, handlers>>

\* main has returned and nothing is pending: the process ends with status 0.
ProcessEnd ==
  /\ pc = "done"
  /\ handlers = <<>>
  /\ Exit(0)
  /\ UNCHANGED <<env, calc, fileReads, outFile, terminal, reads, inputs, countCalls,
                 streamCalls, state, received, handlers>>

\* ------------------------------------------------------------ specification

Next ==
  \/ Top
  \/ CheckCredential
  \/ DeleteOutput
  \/ CheckPrompt
  \/ CheckInclude
  \/ StartReading
  \/ \E op \in {"tree", "files", "rules"} : CompleteRead(op)
  \/ \E op \in Loads, n \in 0..MaxFiles : ListPaths(op, n)
  \/ \E op \in Loads, i \in 1..MaxFiles : CompleteFileRead(op, i)
  \/ \E op \in Loads, i \in 1..MaxFiles : FailFileRead(op, i)
  \/ \E op \in {"tree", "files", "rules"} : FailRead(op)
  \/ Summarize
  \/ CountTokens
  \/ CountTokensFail
  \/ ConfirmPrompt
  \/ \E chunk \in Chunks : ConfirmRead(chunk)
  \/ ConfirmEOF
  \/ IssueStream
  \/ \E kind \in Kinds, new \in BOOLEAN : Deliver(kind, new)
  \/ Resume
  \/ StreamEnd
  \/ StreamFail
  \/ Finalize
  \/ WriteOutput
  \/ ProcessEnd

Spec == Init /\ [][Next]_vars

\* Every step but the user's: a read or a remote call that is under way
\* completes or fails, and the event loop runs whatever is ready. When and
\* what the user types, and whether the input ends, is up to the user.
Progress ==
  \/ Top
  \/ CheckCredential
  \/ DeleteOutput
  \/ CheckPrompt
  \/ CheckInclude
  \/ StartReading
  \/ \E op \in {"tree", "files", "rules"} : CompleteRead(op)
  \/ \E op \in Loads, n \in 0..MaxFiles : ListPaths(op, n)
  \/ \E op \in Loads, i \in 1..MaxFiles : CompleteFileRead(op, i)
  \/ \E op \in Loads, i \in 1..MaxFiles : FailFileRead(op, i)
  \/ \E op \in {"tree", "files", "rules"} : FailRead(op)
  \/ Summarize
  \/ CountTokens
  \/ CountTokensFail
  \/ ConfirmPrompt
  \/ IssueStream
  \/ \E kind \in Kinds, new \in BOOLEAN : Deliver(kind, new)
  \/ Resume
  \/ StreamEnd
  \/ StreamFail
  \/ Finalize
  \/ WriteOutput
  \/ ProcessEnd

FairSpec == Spec /\ WF_vars(Progress)

\* ------------------------------------------------------------ properties

Count(seq, x) == Cardinality({k \in DOMAIN seq : seq[k] = x})
Printed(w) == \E k \in DOMAIN terminal : terminal[k] = W(w)

Helped == HasHelp(env.variant) /\ env.help
ValidationFails == ~env.apiKey \/ ~env.promptFile \/ env.include = 0
Remediation ==
  Printed("credentialError") \/ Printed("promptError") \/ Printed("includeError")
Cancelled == Printed("Stopping...")

\* The input is 'y' (resp. 'n') in either case, with blanks around it only.
Says(chunk, lower, upper) ==
  \E i \in DOMAIN chunk :
    /\ chunk[i] \in {lower, upper}
    /\ \A j \in DOMAIN chunk \ {i} : chunk[j] \in {" ", "\n"}
SaysYes(chunk) == Says(chunk, "y", "Y")
SaysNo(chunk) == Says(chunk, "n", "N")
Other(chunk) == ~SaysYes(chunk) /\ ~SaysNo(chunk)

\* C1: the phases occur in the order Validating, Reading, Summarizing,
\* Confirming, Streaming, Finalizing, Done: no matched file is read unless
\* every validation condition holds, the streaming request is issued only
\* after every read has completed and the summary is printed, the output file
\* is written only after the stream has completed, and a run is aborted only
\* before Reading or by the user's 'n'.
C1_PhaseOrder ==
  /\ reads["files"] # "idle" => ~ValidationFails
  /\ streamCalls > 0 =>
       /\ \A op \in Needed(env.variant) : reads[op] = "done"
       /\ env.variant # "git" => Printed("summary")
  /\ Printed("written") => streamCalls = 1 /\ Printed("usage")
  /\ (Remediation \/ Cancelled) =>
       \/ reads["files"] = "idle"
       \/ terminal[Len(terminal)] = W("Stopping...")

ThinkingWrites ==
  {k \in DOMAIN terminal :
     terminal[k].w = "delta" /\ received[terminal[k].n].kind = "thinking"}
TextWrites ==
  {k \in DOMAIN terminal :
     terminal[k].w = "delta" /\ received[terminal[k].n].kind = "text"}
OpenWrites == {k \in DOMAIN terminal : terminal[k] = W("<THINKING>")}
CloseWrites == {k \in DOMAIN terminal : terminal[k] = W("</THINKING>")}
ReasoningFirst ==
  \E k \in ThinkingWrites : \A t \in TextWrites : k < t

\* C2: <THINKING> and </THINKING> are each printed exactly once when
\* reasoning output precedes answer output and not at all otherwise; the
\* opening marker precedes the first reasoning delta, the closing marker
\* follows the last one and precedes the first answer delta, and no marker is
\* printed after answer output has started.
C2_ThinkingMarkers ==
  /\ Cardinality(OpenWrites) <= 1
  /\ Cardinality(CloseWrites) <= 1
  /\ \A m \in OpenWrites \cup CloseWrites : \A t \in TextWrites : m < t
  /\ ReasoningFirst =>
       /\ Cardinality(OpenWrites) = 1
       /\ \A o \in OpenWrites : \A k \in ThinkingWrites : o < k
  /\ (ReasoningFirst /\ TextWrites # {}) =>
       /\ Cardinality(CloseWrites) = 1
       /\ \A c \in CloseWrites : \A k \in ThinkingWrites : k < c
  /\ (~ReasoningFirst /\ handlers = <<>>) => OpenWrites \cup CloseWrites = {}

\* C3: the stream handlers are never reentrant: no handler is invoked, and no
\* handler assigns state, while another handler is suspended between its
\* test of state and its assignment to it.
C3_NoReentrancy ==
  [][ /\ received' # received => handlers = <<>>
      /\ (handlers # <<>> /\ handlers' = Tail(handlers)) => Len(handlers) = 1
    ]_vars

InvalidMessages == Count(terminal, W("Invalid input, please use y or n"))

\* C4: in the confirmation loop an input equal to 'y' (trimmed, in either
\* case) leaves the loop towards the one streaming request, an input equal to
\* 'n' ends the process with status 0, and every other input prints exactly
\* one invalid-input message and keeps the loop waiting; for 'x' then 'y'
\* one message is printed and the streaming request is issued once.
C4_ConfirmLoop ==
  LET n == Len(inputs)
  IN  /\ InvalidMessages = Cardinality({i \in 1..n : Other(inputs[i])})
      /\ \A i \in 1..(n - 1) : Other(inputs[i])
      /\ streamCalls <= 1
      /\ (n > 0 /\ SaysYes(inputs[n])) =>
           /\ Printed("Making request...")
           /\ IF pc = "stream" THEN streamCalls = 0 ELSE streamCalls = 1
      /\ (n > 0 /\ SaysNo(inputs[n])) =>
           pc = "exited" /\ exitStatus = 0 /\ streamCalls = 0
      /\ (n > 0 /\ Other(inputs[n])) =>
           ~Printed("Making request...") /\ ~Printed("Stopping...")
      /\ inputs = << <<"x">>, <<"y">> >> => InvalidMessages = 1

C4_Witness ==
  /\ inputs = << <<"x">>, <<"y">> >>
  /\ InvalidMessages = 1
  /\ streamCalls = 1

AnsweredNo == inputs # <<>> /\ SaysNo(inputs[Len(inputs)])

\* C5: when the user answers 'n' the process exits with status 0 and no
\* remote call, neither the token-count call nor the streaming call, was
\* issued before.
C5_NoRemoteCallBeforeCancel ==
  AnsweredNo =>
    pc = "exited" /\ exitStatus = 0 /\ countCalls = 0 /\ streamCalls = 0

\* C6: a missing credential, a missing request document or an empty include
\* list ends the run with a remediation message and a non-zero status, with
\* no matched file loaded and no remote call issued; a run in which all
\* three conditions are satisfied never ends in a validation failure.
C6_ValidationFailsFast ==
  /\ (ValidationFails /\ ~Helped) =>
       /\ reads["files"] = "idle"
       /\ countCalls = 0 /\ streamCalls = 0
       /\ pc # "done"
       /\ pc = "exited" => exitStatus = 1 /\ Remediation
  /\ ~ValidationFails => ~Remediation

\* C7: a run ends with status 0 only on success, on --help or on the user's
\* cancellation, and with status 1 on every validation failure and on every
\* unhandled error, whose message the top-level handler prints.
C7_ExitStatus ==
  pc = "exited" =>
    /\ exitStatus \in {0, 1}
    /\ exitStatus = 0 => Printed("written") \/ Helped \/ Cancelled
    /\ (ValidationFails /\ ~Helped) => exitStatus = 1
    /\ (\E op \in DOMAIN reads : reads[op] = "failed") =>
         exitStatus = 1 /\ terminal[Len(terminal)] = W("error")

\* C8: an output file of an earlier run is deleted before any validation
\* check can fail: after a run that failed validation it no longer exists.
C8_StaleOutputDeleted ==
  (pc = "exited" /\ Remediation) => ~outFile.exists

StreamFailed == pc = "exited" /\ streamCalls > 0 /\ Printed("error")

\* C9: if the streaming call fails, it is not issued again, the output file
\* does not exist when the process ends, the process exits with status 1
\* after the error message, and every delta relayed to the terminal before
\* the failure is still on it.
C9_StreamFailure ==
  /\ streamCalls <= 1
  /\ StreamFailed =>
       /\ ~outFile.exists
       /\ exitStatus = 1
       /\ terminal[Len(terminal)] = W("error")
       /\ \A i \in DOMAIN received :
            (\A k \in DOMAIN handlers : handlers[k].n # i) =>
              \E k \in DOMAIN terminal : terminal[k] = Delta(i)

C9_Witness ==
  /\ StreamFailed
  /\ env.priorOutput
  /\ \E k \in DOMAIN terminal : terminal[k].w = "delta"

\* The text of the answer, event by event: a text delta that opens a block
\* after an earlier text block is preceded by the separator.
RECURSIVE AnswerText(_, _)
AnswerText(evs, n) ==
  IF n = 0 THEN <<>>
  ELSE LET rest == AnswerText(evs, n - 1)
       IN  IF evs[n].kind # "text" THEN rest
           ELSE IF evs[n].new /\ \E j \in 1..(n - 1) : evs[j].kind = "text"
           THEN rest \o <<Separator, Delta(n)>>
           ELSE Append(rest, Delta(n))

\* C10: after a successful run the output file holds exactly the texts of
\* the final message's text blocks, in order, joined by a double newline,
\* reasoning blocks excluded, whatever the file held before the run.
C10_OutputContent ==
  Printed("written") =>
    outFile = Present(AnswerText(received, Len(received)))

C10_Witness ==
  /\ Printed("written")
  /\ env.priorOutput
  /\ \E i \in DOMAIN received : received[i].kind = "thinking"
  /\ Cardinality({i \in DOMAIN received :
                    received[i].kind = "text" /\ received[i].new}) >= 2

\* ------------------------------------------------------------ file loader

FileReadFailed ==
  \E op \in Loads : \E i \in DOMAIN fileReads[op] : fileReads[op][i] = "failed"

\* C20: if the read of any one matched file fails, the whole load fails: the
\* load is never resolved with the records of the other files, no summary
\* is made and no prompt assembled, no remote call is issued, the output file
\* is not written and the run ends with status 1, whichever of the other
\* reads completed before it.
C20_LoadFailsWhole ==
  FileReadFailed =>
    /\ pc = "exited" /\ exitStatus = 1
    /\ \E op \in Loads : reads[op] = "failed"
    /\ ~Printed("summary")
    /\ countCalls = 0 /\ streamCalls = 0
    /\ ~outFile.exists /\ ~Printed("written")

\* The first matched file's read fails after the second one's has completed.
C20_Witness ==
  /\ Len(fileReads["files"]) = 2
  /\ fileReads["files"][1] = "failed"
  /\ fileReads["files"][2] = "done"
  /\ pc = "exited"

\* ------------------------------------------------------------ functions
\*
\* The pure functions of the program are checked one at a time: calc holds
\* the arguments and the result of the call, and main is not running.

NotRunning ==
  /\ env = [variant |-> "rules", help |-> FALSE, think |-> FALSE,
            apiKey |-> TRUE, promptFile |-> TRUE, include |-> 1,
            priorOutput |-> FALSE]
  /\ pc = Head(Flow(env.variant))
  /\ exitStatus = -1
  /\ outFile = Absent
  /\ terminal = <<>>
  /\ reads = [op \in {"tree", "files", "rules"} |-> "idle"]
  /\ fileReads = NoFileReads
  /\ inputs = <<>>
  /\ countCalls = 0
  /\ streamCalls = 0
  /\ state = "idle"
  /\ received = <<>>
  /\ handlers = <<>>

main == <<env, pc, exitStatus, outFile, terminal, reads, fileReads, inputs,
          countCalls, streamCalls, state, received, handlers>>

\* ------------------------------------------------------------ numbers
\*
\* A JavaScript number that is a fraction is kept exactly, in lowest terms.

RECURSIVE GCD(_, _)
GCD(a, b) == IF b = 0 THEN a ELSE GCD(b, a % b)

Rat(n, d) == LET g == GCD(n, d) IN [num |-> n \div g, den |-> d \div g]

\* x * y and x / k
RatMul(x, y) ==
  LET g1 == GCD(x.num, y.den)
      g2 == GCD(y.num, x.den)
  IN  Rat((x.num \div g1) * (y.num \div g2), (x.den \div g2) * (y.den \div g1))
RatDiv(x, k) == RatMul(x, Rat(1, k))

\* x + y and x <= y, over the least common denominator
RatAdd(x, y) ==
  LET l == (x.den \div GCD(x.den, y.den)) * y.den
  IN  Rat(x.num * (l \div x.den) + y.num * (l \div y.den), l)
RatLeq(x, y) ==
  LET l == (x.den \div GCD(x.den, y.den)) * y.den
  IN  x.num * (l \div x.den) <= y.num * (l \div y.den)

\* ------------------------------------------------------------ cost

MaxTokens == 2

INPUT_PRICE_PER_M == Rat(3, 1)
CACHE_WRITE_PRICE_PER_M == Rat(375, 100)
CACHE_READ_PRICE_PER_M == Rat(3, 10)
FreeOutput == Rat(0, 1)
OUTPUT_PRICE_PER_M == Rat(15, 1)

\* A field of the usage the API reports: a count, null or undefined.
Number(n) == [kind |-> "number", v |-> n]
Null == [kind |-> "null", v |-> 0]
Undefined == [kind |-> "undefined", v |-> 0]
Counts == {Number(n) : n \in 0..MaxTokens}
Usages == [input_tokens : Counts,
           cache_creation_input_tokens : Counts \cup {Null, Undefined},
           cache_read_input_tokens : Counts \cup {Null, Undefined},
           output_tokens : Counts]

\* x ?? d
Nullish(x, d) == IF x.kind \in {"null", "undefined"} THEN d ELSE x.v

\* A cost function that leaves the cache reads out of the input total.
calculateTokenUsageAndCostNoReads(usage) ==
  LET inputTokens == usage.input_tokens.v
      cacheCreationTokens == Nullish(usage.cache_creation_input_tokens, 0)
      cacheReadTokens == Nullish(usage.cache_read_input_tokens, 0)
      outputTokens == usage.output_tokens.v
      inputCost == RatMul(RatDiv(Rat(inputTokens, 1), 1000000), INPUT_PRICE_PER_M)
      cacheWriteCost ==
        RatMul(RatDiv(Rat(cacheCreationTokens, 1), 1000000), CACHE_WRITE_PRICE_PER_M)
      cacheReadCost ==
        RatMul(RatDiv(Rat(cacheReadTokens, 1), 1000000), CACHE_READ_PRICE_PER_M)
      outputCost == RatMul(RatDiv(Rat(outputTokens, 1), 1000000), OUTPUT_PRICE_PER_M)
  IN  [totalInputTokens |-> inputTokens + cacheCreationTokens,
       inputTokens |-> inputTokens,
       cacheCreationTokens |-> cacheCreationTokens,
       cacheReadTokens |-> cacheReadTokens,
       outputTokens |-> outputTokens,
       inputCost |-> inputCost,
       cacheWriteCost |-> cacheWriteCost,
       cacheReadCost |-> cacheReadCost,
       outputCost |-> outputCost,
       totalCost |-> RatAdd(RatAdd(RatAdd(inputCost, cacheWriteCost),
                                   cacheReadCost), outputCost)]

calculateTokenUsageAndCost(usage) ==
  LET inputTokens == usage.input_tokens.v
      cacheCreationTokens == Nullish(usage.cache_creation_input_tokens, 0)
      cacheReadTokens == Nullish(usage.cache_read_input_tokens, 0)
      outputTokens == usage.output_tokens.v
      inputCost == RatMul(RatDiv(Rat(inputTokens, 1), 1000000), INPUT_PRICE_PER_M)
      cacheWriteCost ==
        RatMul(RatDiv(Rat(cacheCreationTokens, 1), 1000000), CACHE_WRITE_PRICE_PER_M)
      cacheReadCost ==
        RatMul(RatDiv(Rat(cacheReadTokens, 1), 1000000), CACHE_READ_PRICE_PER_M)
      outputCost == RatMul(RatDiv(Rat(outputTokens, 1), 1000000), OUTPUT_PRICE_PER_M)
      totalCost == RatAdd(RatAdd(RatAdd(inputCost, cacheWriteCost),
                                 cacheReadCost), outputCost)
  IN  [totalInputTokens |-> inputTokens + cacheCreationTokens + cacheReadTokens,
       inputTokens |-> inputTokens,
       cacheCreationTokens |-> cacheCreationTokens,
       cacheReadTokens |-> cacheReadTokens,
       outputTokens |-> outputTokens,
       inputCost |-> inputCost,
       cacheWriteCost |-> cacheWriteCost,
       cacheReadCost |-> cacheReadCost,
       outputCost |-> outputCost,
       totalCost |-> totalCost]

UsageFields == {"input_tokens", "cache_creation_input_tokens",
                "cache_read_input_tokens", "output_tokens"}

\* The usage with every count doubled, and with one count raised by one.
Doubled(usage) ==
  [f \in UsageFields |->
     IF usage[f].kind = "number" THEN Number(2 * usage[f].v) ELSE usage[f]]
Raised(usage, f) == [usage EXCEPT ![f] = Number(Nullish(usage[f], 0) + 1)]

\* Two usages are priced: one the API reported, and one it is compared with.
InitCost ==
  /\ NotRunning
  /\ \E usage \in Usages :
       \E other \in {Doubled(usage)} \cup {Raised(usage, f) : f \in UsageFields} :
         calc = [op |-> "cost", usage |-> usage, other |-> other,
                 cost |-> <<>>, otherCost |-> <<>>]

CostOfUsage ==
  /\ calc.op = "cost"
  /\ calc.cost = <<>>
  /\ calc' = [calc EXCEPT !.cost = <<calculateTokenUsageAndCost(calc.usage)>>]
  /\ UNCHANGED main

CostOfOther ==
  /\ calc.op = "cost"
  /\ calc.otherCost = <<>>
  /\ calc' = [calc EXCEPT !.otherCost = <<calculateTokenUsageAndCost(calc.other)>>]
  /\ UNCHANGED main

NextCost == CostOfUsage \/ CostOfOther

SpecCost == InitCost /\ [][NextCost]_vars

\* The count a field of the usage stands for: an absent one stands for 0.
CountOf(x) == IF x.kind = "number" THEN x.v ELSE 0

\* C11: the result has totalInputTokens = input + cache-write + cache-read,
\* each cost term = tokens / 1,000,000 * rate with the rates 3.0, 3.75, 0.30
\* and 15.0, and totalCost = the sum of the four terms, unrounded; a
\* cache-write or cache-read count that is null or undefined counts as 0.
\* Costs are stated in units of 10^-8 dollar, where every term is whole.
C11_CostArithmetic ==
  (calc.op = "cost" /\ calc.cost # <<>>) =>
    LET r == calc.cost[1]
        i == CountOf(calc.usage.input_tokens)
        w == CountOf(calc.usage.cache_creation_input_tokens)
        c == CountOf(calc.usage.cache_read_input_tokens)
        o == CountOf(calc.usage.output_tokens)
    IN  /\ r.totalInputTokens = i + w + c
        /\ r.inputCost = Rat(i * 300, 100000000)
        /\ r.cacheWriteCost = Rat(w * 375, 100000000)
        /\ r.cacheReadCost = Rat(c * 30, 100000000)
        /\ r.outputCost = Rat(o * 1500, 100000000)
        /\ r.totalCost = Rat(i * 300 + w * 375 + c * 30 + o * 1500, 100000000)

\* A usage with a null cache-write count and non-zero other counts is priced.
C11_Witness ==
  /\ calc.op = "cost" /\ calc.cost # <<>>
  /\ calc.usage.cache_creation_input_tokens = Null
  /\ calc.usage.cache_read_input_tokens = Number(2)
  /\ calc.usage.input_tokens = Number(1)
  /\ calc.usage.output_tokens = Number(1)
  /\ calc.cost[1].totalInputTokens = 3

Zero(usage) == \A f \in UsageFields : CountOf(usage[f]) = 0

\* C12: for non-negative counts, totalCost = 0 exactly when all four counts
\* are zero; doubling every count doubles totalCost; and totalCost does not
\* decrease when one count is increased.
C12_CostAlgebra ==
  (calc.op = "cost" /\ calc.cost # <<>> /\ calc.otherCost # <<>>) =>
    LET a == calc.cost[1].totalCost
        b == calc.otherCost[1].totalCost
    IN  /\ a = Rat(0, 1) <=> Zero(calc.usage)
        /\ b = Rat(0, 1) <=> Zero(calc.other)
        /\ calc.other = Doubled(calc.usage) => b = RatAdd(a, a)
        /\ (\E f \in UsageFields : calc.other = Raised(calc.usage, f)) =>
             RatLeq(a, b)

\* The output count alone is raised from zero, and both usages are priced.
C12_Witness ==
  /\ calc.op = "cost" /\ calc.cost # <<>> /\ calc.otherCost # <<>>
  /\ Zero(calc.usage)
  /\ calc.other = Raised(calc.usage, "output_tokens")
  /\ calc.otherCost[1].totalCost # Rat(0, 1)

\* ------------------------------------------------------------ recency

dayMs == 24 * 60 * 60 * 1000

\* Date.now(), in milliseconds from an origin some days back.
Nows == {8 * dayMs, 8 * dayMs + 1}

\* How long before now a file was modified: after now (a clock set back,
\* or a write during the run), now, and one millisecond around each limit.
Ages == {-1, 0, dayMs - 1, dayMs, dayMs + 1, 7 * dayMs - 1, 7 * dayMs, 7 * dayMs + 1}

\* The records getFilesWithContent returns for n files, in path order.
FileLists(now) ==
  UNION {[1..n -> [path : 1..MaxFiles, lastModified : {now - a : a \in Ages}]]
         : n \in 0..MaxFiles}
FileData(now) ==
  {files \in FileLists(now) : \A i \in DOMAIN files : files[i].path = i}

\* A partition whose middle bucket has no lower limit.
splitFilesByDateOverlap(files, now) ==
  LET isToday(file) == now - file.lastModified < dayMs
      isLastWeek(file) == now - file.lastModified < 7 * dayMs
      isBefore(file) == now - file.lastModified >= 7 * dayMs
  IN  [today |-> SelectSeq(files, isToday),
       lastWeek |-> SelectSeq(files, isLastWeek),
       before |-> SelectSeq(files, isBefore)]

\* A partition whose limits belong to the more recent bucket.
splitFilesByDateInclusive(files, now) ==
  LET isToday(file) == now - file.lastModified <= dayMs
      isLastWeek(file) ==
        now - file.lastModified > dayMs /\ now - file.lastModified <= 7 * dayMs
      isBefore(file) == now - file.lastModified > 7 * dayMs
  IN  [today |-> SelectSeq(files, isToday),
       lastWeek |-> SelectSeq(files, isLastWeek),
       before |-> SelectSeq(files, isBefore)]

\* now is Date.now(), read once before the three filters; files.filter is
\* SelectSeq.
splitFilesByDate(files, now) ==
  LET isToday(file) == now - file.lastModified < dayMs
      isLastWeek(file) ==
        now - file.lastModified >= dayMs /\ now - file.lastModified < 7 * dayMs
      isBefore(file) == now - file.lastModified >= 7 * dayMs
  IN  [today |-> SelectSeq(files, isToday),
       lastWeek |-> SelectSeq(files, isLastWeek),
       before |-> SelectSeq(files, isBefore)]

InitSplit ==
  /\ NotRunning
  /\ \E now \in Nows :
       \E files \in FileData(now) :
         calc = [op |-> "split", now |-> now, files |-> files, buckets |-> <<>>]

SplitFiles ==
  /\ calc.op = "split"
  /\ calc.buckets = <<>>
  /\ calc' = [calc EXCEPT !.buckets = <<splitFilesByDate(calc.files, calc.now)>>]
  /\ UNCHANGED main

NextSplit == SplitFiles

SpecSplit == InitSplit /\ [][NextSplit]_vars

Buckets == {"today", "lastWeek", "before"}
In(bucket, file) == \E k \in DOMAIN bucket : bucket[k] = file
Times(bucket, file) == Cardinality({k \in DOMAIN bucket : bucket[k] = file})

\* C13: the three buckets are pairwise disjoint and together hold every
\* input record exactly once, records modified after now included: today
\* holds the records of age < 24h, lastWeek those of 24h <= age < 7 * 24h and
\* before those of age >= 7 * 24h, the age being taken from the one now.
C13_Partition ==
  (calc.op = "split" /\ calc.buckets # <<>>) =>
    LET b == calc.buckets[1]
        age(file) == calc.now - file.lastModified
    IN  /\ \A name \in Buckets : \A k \in DOMAIN b[name] : In(calc.files, b[name][k])
        /\ \A i \in DOMAIN calc.files :
             LET file == calc.files[i]
             IN  /\ Times(b.today, file) + Times(b.lastWeek, file)
                      + Times(b.before, file) = 1
                 /\ In(b.today, file) <=> age(file) < 86400000
                 /\ In(b.lastWeek, file) <=>
                      (86400000 <= age(file) /\ age(file) < 604800000)
                 /\ In(b.before, file) <=> age(file) >= 604800000

\* Two files, one modified after now and one eight days ago, are split.
C13_Witness ==
  /\ calc.op = "split" /\ calc.buckets # <<>>
  /\ Len(calc.files) = 2
  /\ calc.files[1].lastModified > calc.now
  /\ In(calc.buckets[1].today, calc.files[1])
  /\ In(calc.buckets[1].before, calc.files[2])

\* C14: a record exactly on a limit belongs to the more recent bucket: one
\* of age exactly 24h to today, one of age exactly 7 * 24h to lastWeek.
C14_LimitMoreRecent ==
  (calc.op = "split" /\ calc.buckets # <<>>) =>
    \A i \in DOMAIN calc.files :
      LET file == calc.files[i]
      IN  /\ calc.now - file.lastModified = 86400000 =>
               In(calc.buckets[1].today, file)
          /\ calc.now - file.lastModified = 604800000 =>
               In(calc.buckets[1].lastWeek, file)

\* C14, amended: a record exactly on a limit belongs to the older bucket:
\* one of age exactly 24h to lastWeek and not to today, one of age exactly
\* 7 * 24h to before and not to lastWeek.
C14_LimitOlder ==
  (calc.op = "split" /\ calc.buckets # <<>>) =>
    \A i \in DOMAIN calc.files :
      LET file == calc.files[i]
      IN  /\ calc.now - file.lastModified = 86400000 =>
               In(calc.buckets[1].lastWeek, file) /\ ~In(calc.buckets[1].today, file)
          /\ calc.now - file.lastModified = 604800000 =>
               In(calc.buckets[1].before, file) /\ ~In(calc.buckets[1].lastWeek, file)

\* A file of age exactly 24h and one of age exactly 7 * 24h are split.
C14_Witness ==
  /\ calc.op = "split" /\ calc.buckets # <<>>
  /\ Len(calc.files) = 2
  /\ calc.now - calc.files[1].lastModified = 86400000
  /\ calc.now - calc.files[2].lastModified = 604800000
  /\ In(calc.buckets[1].lastWeek, calc.files[1])
  /\ In(calc.buckets[1].before, calc.files[2])

\* ------------------------------------------------------------ prompt
\*
\* A text is a sequence of pieces, the empty string being <<>>; a block of
\* the message content carries its text, whether it has a cache_control
\* entry, and the name of the segment its text was made for.

Block(text, seg) == [text |-> text, cache_control |-> FALSE, seg |-> seg]
Uncached(text, seg) == Block(text, seg)
Cached(text, seg) == [text |-> text, cache_control |-> TRUE, seg |-> seg]

\* `<file path="${path}">\n${content}\n</file>`
formatFilesContent(file) == <<[w |-> "file", n |-> file.path]>>

\* files.map(({ content }) => content).join("\n")
contents(files) ==
  join([i \in 1..Len(files) |-> formatFilesContent(files[i])], W("\n"))

rulesText(rules) == <<W("<rules>")>> \o contents(rules) \o <<W("\n}</rules>")>>
fileTreeText == <<W("<file_tree>\n"), W("tree"), W("\n</file_tree>")>>
filesText(files) == <<W("<files>\n")>> \o contents(files) \o <<W("\n</files>")>>
userPrompt(prompt) == <<W("<user_prompt>")>> \o prompt \o <<W("</user_prompt>")>>

\* The content of the one user message, as each generation builds it.
content(variant, rules, files, now, prompt) ==
  LET split == splitFilesByDate(files, now)
      nonEmpty(block) == block.text # <<>>
  IN  CASE variant = "rules" ->
             <<Cached(rulesText(rules), "rules"),
               Cached(fileTreeText, "tree"),
               Cached(filesText(files), "files"),
               Block(userPrompt(prompt), "prompt")>>
        [] variant = "resp" ->
             SelectSeq(<<Cached(contents(split.before), "before"),
                         Cached(contents(split.lastWeek), "lastWeek"),
                         Cached(contents(split.today), "today"),
                         Cached(fileTreeText, "tree"),
                         Block(userPrompt(prompt), "prompt")>>, nonEmpty)
        [] OTHER ->
             <<Block(prompt, "prompt"), Cached(fileTreeText, "tree")>>
             \o SelectSeq(<<Cached(contents(split.today), "today"),
                            Cached(contents(split.lastWeek), "lastWeek"),
                            Cached(contents(split.before), "before")>>, nonEmpty)

\* The text of prompt.md, or of the file --prompt names: empty or not.
Prompts == {<<>>, <<W("prompt")>>}

\* The .cursor/rules files found: none or one.
Rules(now) == {<<>>, <<[path |-> 1, lastModified |-> now]>>}

InitPrompt ==
  /\ NotRunning
  /\ \E variant \in Variants, now \in {8 * dayMs}, prompt \in Prompts :
       \E files \in FileData(now), rules \in Rules(now) :
         /\ variant # "rules" => rules = <<>>
         /\ calc = [op |-> "prompt", variant |-> variant, now |-> now,
                    rules |-> rules, files |-> files, prompt |-> prompt,
                    request |-> <<>>]

\* anthropic.messages.stream({ messages: [{ role: "user", content }] })
AssemblePrompt ==
  /\ calc.op = "prompt"
  /\ calc.request = <<>>
  /\ calc' = [calc EXCEPT !.request =
                <<content(calc.variant, calc.rules, calc.files, calc.now,
                          calc.prompt)>>]
  /\ UNCHANGED main

NextPrompt == AssemblePrompt

SpecPrompt == InitPrompt /\ [][NextPrompt]_vars

Submitted == calc.op = "prompt" /\ calc.request # <<>>
FileSegs == {"files", "today", "lastWeek", "before"}
Rank(seg) == CASE seg = "rules" -> 1
               [] seg = "tree" -> 2
               [] seg \in FileSegs -> 3
               [] seg = "prompt" -> 4

\* C15: in every submitted request the segments come in the order rules
\* (if any), file tree, file contents, and the user's request last: the
\* user's request never comes before the tree or the file contents.
C15_SegmentOrder ==
  Submitted =>
    LET c == calc.request[1]
    IN  /\ \A i, j \in DOMAIN c : i < j => Rank(c[i].seg) <= Rank(c[j].seg)
        /\ c # <<>> /\ c[Len(c)].seg = "prompt"

\* C16: every rules, file-tree and file-content segment of a submitted
\* request carries a cache-boundary marker and the user's request carries
\* none, whichever segments are empty.
C16_CacheMarkers ==
  Submitted =>
    \A i \in DOMAIN calc.request[1] :
      calc.request[1][i].cache_control <=> calc.request[1][i].seg # "prompt"

\* A request is submitted with no rules file and no included file: all four
\* segments of the last generation are there, three of them marked.
C16_Witness ==
  /\ Submitted
  /\ calc.files = <<>> /\ calc.rules = <<>> /\ calc.variant = "rules"
  /\ Len(calc.request[1]) = 4
  /\ calc.request[1][1].cache_control /\ ~calc.request[1][4].cache_control

Has(seg) == \E i \in DOMAIN calc.request[1] : calc.request[1][i].seg = seg

\* C17: a segment with nothing in it is left out of the request: no rules
\* file, no rules segment; no included file, no file-content segment; an
\* empty recency bucket, no segment for that bucket.
C17_EmptyOmitted ==
  Submitted =>
    LET split == splitFilesByDate(calc.files, calc.now)
    IN  /\ calc.rules = <<>> => ~Has("rules")
        /\ calc.files = <<>> => \A seg \in FileSegs : ~Has(seg)
        /\ \A seg \in Buckets : split[seg] = <<>> => ~Has(seg)

\* ------------------------------------------------------------ tree
\*
\* A path is the sequence of its segments, what path.split("/") returns:
\* "a//b" is <<"a", "", "b">> and "/a" is <<"", "a">>. A Tree is the sequence
\* of its entries [key, sub] in the order the keys were added to the object.

MaxPaths == 2
MaxCount == 3
MaxDepth == 2

Segments == {"a", "b", ""}

Paths == UNION {[1..n -> Segments] : n \in 1..MaxDepth}
PathLists == UNION {[1..n -> Paths] : n \in 0..MaxPaths}

isPart(part) == part # ""

\* An insertion that starts every directory it passes through afresh.
RECURSIVE InsertFresh(_, _)
InsertFresh(tree, parts) ==
  IF parts = <<>> THEN tree
  ELSE IF \E i \in DOMAIN tree : tree[i].key = Head(parts)
       THEN LET i == CHOOSE i \in DOMAIN tree : tree[i].key = Head(parts)
            IN  [tree EXCEPT ![i].sub = InsertFresh(<<>>, Tail(parts))]
       ELSE Append(tree, [key |-> Head(parts),
                          sub |-> InsertFresh(<<>>, Tail(parts))])

\* parts.forEach: current[part] = current[part] || {}; current = current[part]
RECURSIVE Insert(_, _)
Insert(tree, parts) ==
  IF parts = <<>> THEN tree
  ELSE IF \E i \in DOMAIN tree : tree[i].key = Head(parts)
       THEN LET i == CHOOSE i \in DOMAIN tree : tree[i].key = Head(parts)
            IN  [tree EXCEPT ![i].sub = Insert(tree[i].sub, Tail(parts))]
       ELSE Append(tree, [key |-> Head(parts), sub |-> Insert(<<>>, Tail(parts))])

RECURSIVE createTreeFrom(_, _)
createTreeFrom(tree, paths) ==
  IF paths = <<>> THEN tree
  ELSE createTreeFrom(Insert(tree, SelectSeq(Head(paths), isPart)), Tail(paths))

createTree(paths) == createTreeFrom(<<>>, paths)

InitTree ==
  /\ NotRunning
  /\ \E paths \in PathLists :
       calc = [op |-> "tree", paths |-> paths, tree |-> <<>>,
               again |-> <<>>, permuted |-> <<>>, text |-> <<>>]

BuildTree ==
  /\ calc.op = "tree"
  /\ calc.tree = <<>>
  /\ calc' = [calc EXCEPT !.tree = <<createTree(calc.paths)>>]
  /\ UNCHANGED main

\* The tree built has not been put to any use yet.
Unused == calc.again = <<>> /\ calc.permuted = <<>> /\ calc.text = <<>>

\* The tree is built from the list in another order.
BuildPermuted ==
  /\ calc.op = "tree"
  /\ calc.tree # <<>> /\ Unused
  /\ \E f \in Permutations(DOMAIN calc.paths) :
       calc' = [calc EXCEPT !.permuted =
                  <<createTree([i \in DOMAIN calc.paths |-> calc.paths[f[i]]])>>]
  /\ UNCHANGED main

\* The tree is built from the list with every path given twice.
BuildDuplicated ==
  /\ calc.op = "tree"
  /\ calc.tree # <<>> /\ Unused
  /\ calc' = [calc EXCEPT !.again = <<createTree(calc.paths \o calc.paths)>>]
  /\ UNCHANGED main

\* A path of the list is inserted into the tree built from the list.
InsertAgain ==
  /\ calc.op = "tree"
  /\ calc.tree # <<>> /\ Unused
  /\ \E i \in DOMAIN calc.paths :
       calc' = [calc EXCEPT !.again =
                  <<Insert(calc.tree[1], SelectSeq(calc.paths[i], isPart))>>]
  /\ UNCHANGED main

\* The string order of two keys.
KeyOrder(key) == IF key = "a" THEN 1 ELSE 2

\* A render that leaves the keys in the order of the object.
sortNot(tree) == tree

\* Object.keys(tree).sort(): the keys of an object are distinct.
sort(tree) ==
  LET pos(i) == 1 + Cardinality({j \in DOMAIN tree :
                   KeyOrder(tree[j].key) < KeyOrder(tree[i].key)})
  IN  [k \in DOMAIN tree |-> tree[CHOOSE i \in DOMAIN tree : pos(i) = k]]

\* The spaces one level adds to the indent: "  " in the last generation,
\* " " in the others.
IndentStep(variant) == IF variant = "rules" THEN 2 ELSE 1

\* The text is the sequence of its lines: the key, the number of spaces
\* before it and the path of the node the line stands for.
RECURSIVE printTree(_, _, _, _)
RECURSIVE printKeys(_, _, _, _)
printTree(tree, indent, step, path) ==
  IF tree = <<>> THEN <<>> ELSE printKeys(sort(tree), indent, step, path)
printKeys(entries, indent, step, path) ==
  IF entries = <<>> THEN <<>>
  ELSE <<[key |-> Head(entries).key, indent |-> indent,
          path |-> Append(path, Head(entries).key)]>>
       \o printTree(Head(entries).sub, indent + step, step,
                    Append(path, Head(entries).key))
       \o printKeys(Tail(entries), indent, step, path)

\* printTree(tree), in one of the generations.
PrintTree ==
  /\ calc.op = "tree"
  /\ calc.tree # <<>> /\ Unused
  /\ \E variant \in Variants :
       calc' = [calc EXCEPT !.text =
                  <<[variant |-> variant,
                     lines |-> printTree(calc.tree[1], 0, IndentStep(variant), <<>>)]>>]
  /\ UNCHANGED main

NextTree ==
  BuildTree \/ BuildPermuted \/ BuildDuplicated \/ InsertAgain \/ PrintTree

SpecTree == InitTree /\ [][NextTree]_vars

\* The paths of the leaves of a tree under a prefix.
RECURSIVE Leaves(_, _)
Leaves(tree, prefix) ==
  UNION {IF tree[i].sub = <<>> THEN {Append(prefix, tree[i].key)}
         ELSE Leaves(tree[i].sub, Append(prefix, tree[i].key))
         : i \in DOMAIN tree}

PathSet(paths) == {paths[i] : i \in DOMAIN paths}
ProperPrefix(p, q) == Len(p) < Len(q) /\ SubSeq(q, 1, Len(p)) = p

\* C18: the leaves of createTree(paths), one path each, are exactly the
\* paths given, for every set of paths, also one in which a path is a proper
\* prefix of another and one with paths that have empty segments.
C18_RoundTrip ==
  (calc.op = "tree" /\ calc.tree # <<>>) =>
    Leaves(calc.tree[1], <<>>) = PathSet(calc.paths)

\* C18, amended: the leaves of createTree(paths) are exactly the paths
\* given, for every set of paths without empty segments in which no path is
\* a proper prefix of another.
C18_RoundTripOfFiles ==
  (/\ calc.op = "tree" /\ calc.tree # <<>>
   /\ \A p \in PathSet(calc.paths) : \A k \in DOMAIN p : p[k] # ""
   /\ \A p, q \in PathSet(calc.paths) : ~ProperPrefix(p, q)) =>
    Leaves(calc.tree[1], <<>>) = PathSet(calc.paths)

\* The tree of two files of one directory is built.
C18_Witness ==
  /\ calc.op = "tree" /\ calc.tree # <<>>
  /\ calc.paths = <<(<<"a", "a">>), (<<"a", "b">>)>>
  /\ Leaves(calc.tree[1], <<>>) = {<<"a", "a">>, <<"a", "b">>}

\* ------------------------------------------------------------ render

\* The paths of files: no empty segment.
FilePaths == {p \in Paths : \A k \in DOMAIN p : p[k] # ""}

\* Array.prototype.sort() on path strings: "a" < "a/b" < "b".
RECURSIVE PathLess(_, _)
PathLess(p, q) ==
  IF p = <<>> THEN q # <<>>
  ELSE IF q = <<>> THEN FALSE
  ELSE IF Head(p) = Head(q) THEN PathLess(Tail(p), Tail(q))
  ELSE Head(p) = "a"

\* The records of the loaded files: distinct paths of files in sorted order
\* (getFilesPaths), none inside another, each with its token count.
TokenFiles ==
  {files \in UNION {[1..n -> [path : FilePaths, tokens : 1..MaxTokens]]
                    : n \in 0..MaxPaths} :
     /\ \A i, j \in DOMAIN files : i < j => PathLess(files[i].path, files[j].path)
     /\ \A i, j \in DOMAIN files : ~ProperPrefix(files[i].path, files[j].path)}

\* filesWithTokens.get(fullPath) || 0
get(files, fullPath) ==
  IF \E i \in DOMAIN files : files[i].path = fullPath
  THEN (CHOOSE file \in {files[i] : i \in DOMAIN files} : file.path = fullPath).tokens
  ELSE 0

\* Object.keys(tree).sort((a, b) => tokensB - tokensA): a stable sort, so an
\* entry follows those of a greater count and the earlier ones of its own.
sortDescending(tree, count) ==
  LET pos(i) == 1 + Cardinality({j \in DOMAIN tree :
                   count[j] > count[i] \/ (count[j] = count[i] /\ j < i)})
  IN  [k \in DOMAIN tree |-> tree[CHOOSE i \in DOMAIN tree : pos(i) = k]]

\* The text is the sequence of its lines: the key, the depth of the indent,
\* the count displayed (0 for none) and the full path the line stands for.
RECURSIVE printTreeWithTokens(_, _, _)
RECURSIVE printEntries(_, _, _)
printTreeWithTokens(tree, filesWithTokens, path) ==
  IF tree = <<>> THEN <<>>
  ELSE printEntries(
         sortDescending(tree, [i \in DOMAIN tree |->
                  get(filesWithTokens, Append(path, tree[i].key))]),
         filesWithTokens, path)
printEntries(entries, filesWithTokens, path) ==
  IF entries = <<>> THEN <<>>
  ELSE LET fullPath == Append(path, Head(entries).key)
       IN  <<[key |-> Head(entries).key, indent |-> Len(path),
              tokens |-> get(filesWithTokens, fullPath), path |-> fullPath]>>
           \o printTreeWithTokens(Head(entries).sub, filesWithTokens, fullPath)
           \o printEntries(Tail(entries), filesWithTokens, path)

InitRender ==
  /\ NotRunning
  /\ \E files \in TokenFiles :
       calc = [op |-> "render", files |-> files, text |-> <<>>,
               given |-> files, count |-> 0, largest |-> <<>>]

\* printTreeWithTokens(createTree(filesWithContent.map(path)), filesTokenMap)
RenderSelected ==
  /\ calc.op = "render"
  /\ calc.text = <<>>
  /\ calc' = [calc EXCEPT !.text =
                <<printTreeWithTokens(
                    createTree([i \in DOMAIN calc.files |-> calc.files[i].path]),
                    calc.files, <<>>)>>]
  /\ UNCHANGED main

\* array.slice(0, end), for an end that is not negative
slice(array, end) == SubSeq(array, 1, IF end > Len(array) THEN Len(array) ELSE end)

\* A listing that sorts the array it is given.
printLargestFilesInPlace(files, count) ==
  LET sortedFiles ==
        sortDescending(files, [i \in DOMAIN files |-> files[i].tokens])
      top == slice(sortedFiles, count)
  IN  [files |-> sortedFiles,
       result |-> [index \in DOMAIN top |->
                     [rank |-> index, path |-> top[index].path,
                      tokens |-> top[index].tokens]]]

\* The array after the call, and the numbered lines of the text returned:
\* [...files].sort(...) sorts a copy.
printLargestFiles(files, count) ==
  LET copy == files
      sortedFiles ==
        sortDescending(copy, [i \in DOMAIN copy |-> copy[i].tokens])
      top == slice(sortedFiles, count)
  IN  [files |-> files,
       result |-> [index \in DOMAIN top |->
                     [rank |-> index, path |-> top[index].path,
                      tokens |-> top[index].tokens]]]

\* printLargestFiles(filesWithContent, count)
ListLargest ==
  /\ calc.op = "render"
  /\ calc.largest = <<>>
  /\ \E count \in 0..MaxCount :
       LET call == printLargestFiles(calc.files, count)
       IN  calc' = [calc EXCEPT !.files = call.files, !.count = count,
                                !.largest = <<call.result>>]
  /\ UNCHANGED main

NextRender == RenderSelected \/ ListLargest

SpecRender == InitRender /\ [][NextRender]_vars

Leads(p, q) == p = q \/ ProperPrefix(p, q)

RECURSIVE Sum(_, _)
Sum(files, p) ==
  IF files = <<>> THEN 0
  ELSE (IF Leads(p, Head(files).path) THEN Head(files).tokens ELSE 0)
       + Sum(Tail(files), p)

\* The tokens of the files at or beneath a path.
Aggregate(p) == Sum(calc.files, p)

Siblings(p, q) == p # q /\ Len(p) = Len(q) /\ SubSeq(p, 1, Len(p) - 1) = SubSeq(q, 1, Len(q) - 1)

\* The place of a key among the keys of its directory before the sort.
First(p) == CHOOSE i \in DOMAIN calc.files :
              /\ Leads(p, calc.files[i].path)
              /\ \A j \in 1..(i - 1) : ~Leads(p, calc.files[j].path)

\* C19: in the token-annotated render a child is listed before each sibling
\* whose aggregate token count (the sum of the tokens of the files beneath
\* it, a directory counting for the files it contains) is lower, and
\* siblings of equal aggregate keep the order they had.
C19_AggregateOrder ==
  (calc.op = "render" /\ calc.text # <<>>) =>
    \A i, j \in DOMAIN calc.text[1] :
      LET x == calc.text[1][i].path
          y == calc.text[1][j].path
      IN  Siblings(x, y) =>
            /\ Aggregate(x) > Aggregate(y) => i < j
            /\ (Aggregate(x) = Aggregate(y) /\ First(x) < First(y)) => i < j

\* ------------------------------------------------------------ stream state

StateTransitions ==
  {<<"null", "thinking">>, <<"thinking", "text">>, <<"null", "text">>}

\* C21: StreamState changes only by uninitialized -> thinking, thinking ->
\* text and uninitialized -> text: once a final-answer event has been handled
\* (its delta is on the terminal) the state is text and stays text, and no
\* reasoning event arriving after answer output moves it to thinking.
C21_StateMachine ==
  [][ /\ state' # state => <<state, state'>> \in StateTransitions
      /\ (\E k \in DOMAIN terminal' :
            /\ terminal'[k].w = "delta"
            /\ received'[terminal'[k].n].kind = "text") => state' = "text"
    ]_vars

\* C22: the deltas of the stream are written to the terminal in the order
\* in which their events arrived: of two deltas on the terminal the one
\* written first belongs to the earlier event.
C22_DeltaOrder ==
  \A k, l \in DOMAIN terminal :
    (k < l /\ terminal[k].w = "delta" /\ terminal[l].w = "delta") =>
      terminal[k].n < terminal[l].n

\* ------------------------------------------------------------ tree nodes

\* The paths of the nodes of a tree under a prefix.
RECURSIVE Nodes(_, _)
Nodes(tree, prefix) ==
  UNION {{Append(prefix, tree[i].key)}
         \cup Nodes(tree[i].sub, Append(prefix, tree[i].key))
         : i \in DOMAIN tree}

\* The prefixes of a path, by its segments; "//" and a leading "/" separate
\* nothing.
Prefixes(path) ==
  LET parts == SelectSeq(path, isPart)
  IN  {SubSeq(parts, 1, k) : k \in 1..Len(parts)}

\* C23: the tree createTree builds has a node for every prefix of every
\* path of the list and no other node; inserting a path of the list again,
\* or giving every path twice, changes nothing, and the list in any other
\* order yields the same tree (the same nodes).
C23_TreeNodes ==
  (calc.op = "tree" /\ calc.tree # <<>>) =>
    /\ Nodes(calc.tree[1], <<>>) = UNION {Prefixes(p) : p \in PathSet(calc.paths)}
    /\ calc.again # <<>> => calc.again[1] = calc.tree[1]
    /\ calc.permuted # <<>> =>
         Nodes(calc.permuted[1], <<>>) = Nodes(calc.tree[1], <<>>)

\* Two paths of one directory: the tree is built from them and from them in
\* the other order, where the keys come in another order.
C23_Witness ==
  /\ calc.op = "tree" /\ calc.tree # <<>>
  /\ calc.paths = <<(<<"a", "b">>), (<<"a", "a">>)>>
  /\ calc.permuted # <<>> /\ calc.permuted[1] # calc.tree[1]
  /\ Nodes(calc.tree[1], <<>>) = {<<"a">>, <<"a", "a">>, <<"a", "b">>}

\* ------------------------------------------------------------ plain render

Parent(p) == SubSeq(p, 1, Len(p) - 1)

\* C24: the plain render has exactly one line per node of the tree; the
\* line of a node comes after the line of its parent with only lines of that
\* parent's descendants between them; siblings come in ascending order of
\* their keys at every level; the indent is the depth times a fixed step;
\* and the render of the tree of no path is the empty text.
C24_PlainRender ==
  (calc.op = "tree" /\ calc.text # <<>>) =>
    LET lines == calc.text[1].lines
        step == IF calc.text[1].variant = "rules" THEN 2 ELSE 1
    IN  /\ Len(lines) = Cardinality(Nodes(calc.tree[1], <<>>))
        /\ {lines[i].path : i \in DOMAIN lines} = Nodes(calc.tree[1], <<>>)
        /\ \A i \in DOMAIN lines :
             /\ lines[i].key = lines[i].path[Len(lines[i].path)]
             /\ lines[i].indent = step * (Len(lines[i].path) - 1)
             /\ Len(lines[i].path) > 1 =>
                  \E j \in 1..(i - 1) :
                    /\ lines[j].path = Parent(lines[i].path)
                    /\ \A k \in (j + 1)..i : ProperPrefix(lines[j].path, lines[k].path)
        /\ \A i, j \in DOMAIN lines :
             (i < j /\ Siblings(lines[i].path, lines[j].path)) =>
               (lines[i].key = "a" /\ lines[j].key = "b")
        /\ PathSet(calc.paths) = {} => lines = <<>>

\* The paths "b/b" and "b/a", given in this order, are rendered with the
\* indent of the last generation: b, and below it a, then b.
C24_Witness ==
  /\ calc.op = "tree" /\ calc.text # <<>>
  /\ calc.paths = <<(<<"b", "b">>), (<<"b", "a">>)>>
  /\ calc.text[1].variant = "rules"
  /\ calc.text[1].lines =
       <<[key |-> "b", indent |-> 0, path |-> <<"b">>],
         [key |-> "a", indent |-> 2, path |-> <<"b", "a">>],
         [key |-> "b", indent |-> 2, path |-> <<"b", "b">>]>>

\* ------------------------------------------------------------ largest files

\* The place of the file of a path in the list given.
Place(path) == CHOOSE i \in DOMAIN calc.given : calc.given[i].path = path

\* C25: printLargestFiles(files, N) lists min(N, number of files) files,
\* those of the highest token counts, in descending order of the count,
\* files of equal count in the order they had in the list, and leaves the
\* list it was given as it was.
C25_LargestFiles ==
  (calc.op = "render" /\ calc.largest # <<>>) =>
    LET top == calc.largest[1]
        listed == {top[i].path : i \in DOMAIN top}
        n == Len(calc.given)
    IN  /\ Len(top) = IF calc.count < n THEN calc.count ELSE n
        /\ Cardinality(listed) = Len(top)
        /\ \A i \in DOMAIN top :
             /\ top[i].rank = i
             /\ \E k \in DOMAIN calc.given :
                  /\ calc.given[k].path = top[i].path
                  /\ calc.given[k].tokens = top[i].tokens
        /\ \A i, j \in DOMAIN top :
             i < j =>
               /\ top[i].tokens >= top[j].tokens
               /\ top[i].tokens = top[j].tokens => Place(top[i].path) < Place(top[j].path)
        /\ \A k \in DOMAIN calc.given :
             calc.given[k].path \notin listed =>
               \A i \in DOMAIN top :
                 /\ top[i].tokens >= calc.given[k].tokens
                 /\ top[i].tokens = calc.given[k].tokens => Place(top[i].path) < k
        /\ calc.files = calc.given

\* Of two files the one largest is listed, and it is the second of the list.
C25_Witness ==
  /\ calc.op = "render" /\ calc.largest # <<>>
  /\ Len(calc.given) = 2 /\ calc.count = 1
  /\ calc.given[1].tokens < calc.given[2].tokens
  /\ Len(calc.largest[1]) = 1
  /\ calc.largest[1][1].path = calc.given[2].path

\* ------------------------------------------------------------ loader
\*
\* getFilesWithContent after files.map has run: for every path a content
\* read and a modification-time read are under way, each resolving on its
\* own; the inner Promise.all of a path gives its record, the outer one the
\* list of the records.

\* The modification times found on disk, in milliseconds.
Stamps == {0, dayMs}

\* The files of the paths listed, in the order of the list; the i-th path
\* is i.
Disks == UNION {[1..n -> [lastModified : Stamps]] : n \in 0..MaxFiles}

InitLoad ==
  /\ NotRunning
  /\ \E disk \in Disks :
       calc = [op |-> "load", disk |-> disk,
               text |-> [i \in DOMAIN disk |-> <<>>],
               modified |-> [i \in DOMAIN disk |-> <<>>],
               slots |-> [i \in DOMAIN disk |-> <<>>],
               rejected |-> FALSE, fileData |-> <<>>]

Loading == calc.op = "load" /\ ~calc.rejected /\ calc.fileData = <<>>

\* file.text() of the i-th path resolves, and .then formats the content.
ResolveText(i) ==
  /\ Loading
  /\ i \in DOMAIN calc.disk
  /\ calc.text[i] = <<>>
  /\ calc' = [calc EXCEPT !.text[i] = <<formatFilesContent([path |-> i])>>]
  /\ UNCHANGED main

\* file.lastModified of the i-th path is there.
ResolveModified(i) ==
  /\ Loading
  /\ i \in DOMAIN calc.disk
  /\ calc.modified[i] = <<>>
  /\ calc' = [calc EXCEPT !.modified[i] = <<calc.disk[i].lastModified>>]
  /\ UNCHANGED main

\* file.text() of the i-th path rejects, and with it both Promise.all.
RejectText(i) ==
  /\ Loading
  /\ i \in DOMAIN calc.disk
  /\ calc.text[i] = <<>>
  /\ calc' = [calc EXCEPT !.rejected = TRUE]
  /\ UNCHANGED main

\* A loader that collects the records as they become ready.
ReturnRecordPushed(i) ==
  /\ Loading
  /\ i \in DOMAIN calc.disk
  /\ calc.text[i] # <<>> /\ calc.modified[i] # <<>>
  /\ \A k \in DOMAIN calc.slots :
       calc.slots[k] # <<>> => calc.slots[k][1].path # i
  /\ LET k == CHOOSE k \in DOMAIN calc.slots :
                /\ calc.slots[k] = <<>>
                /\ \A j \in 1..(k - 1) : calc.slots[j] # <<>>
     IN  calc' = [calc EXCEPT !.slots[k] =
                    <<[path |-> i, lastModified |-> calc.modified[i][1],
                       content |-> calc.text[i][1]]>>]
  /\ UNCHANGED main

\* The inner Promise.all of the i-th path resolves and the callback returns
\* the record: the i-th element of the outer Promise.all.
ReturnRecord(i) ==
  /\ Loading
  /\ i \in DOMAIN calc.disk
  /\ calc.text[i] # <<>> /\ calc.modified[i] # <<>>
  /\ calc.slots[i] = <<>>
  /\ calc' = [calc EXCEPT !.slots[i] =
                <<[path |-> i, lastModified |-> calc.modified[i][1],
                   content |-> calc.text[i][1]]>>]
  /\ UNCHANGED main

\* The outer Promise.all resolves: return fileData.
ResolveLoad ==
  /\ Loading
  /\ \A i \in DOMAIN calc.slots : calc.slots[i] # <<>>
  /\ calc' = [calc EXCEPT !.fileData =
                <<[i \in DOMAIN calc.slots |-> calc.slots[i][1]]>>]
  /\ UNCHANGED main

NextLoad ==
  \/ \E i \in 1..MaxFiles : ResolveText(i)
  \/ \E i \in 1..MaxFiles : ResolveModified(i)
  \/ \E i \in 1..MaxFiles : RejectText(i)
  \/ \E i \in 1..MaxFiles : ReturnRecord(i)
  \/ ResolveLoad

SpecLoad == InitLoad /\ [][NextLoad]_vars

\* C26: whatever the order in which the content reads and the
\* modification-time reads complete, the loader returns one record per
\* path, in the order of the path list, each with the content and the
\* modification time of its own path, and returns only after both reads of
\* every path have resolved.
C26_LoaderRecords ==
  (calc.op = "load" /\ calc.fileData # <<>>) =>
    LET fileData == calc.fileData[1]
    IN  /\ Len(fileData) = Len(calc.disk)
        /\ \A i \in DOMAIN fileData :
             /\ fileData[i].path = i
             /\ fileData[i].content = <<[w |-> "file", n |-> i]>>
             /\ fileData[i].lastModified = calc.disk[i].lastModified
        /\ \A i \in DOMAIN calc.disk :
             calc.text[i] # <<>> /\ calc.modified[i] # <<>>
        /\ ~calc.rejected

\* Two files of different modification times are loaded.
C26_Witness ==
  /\ calc.op = "load" /\ calc.fileData # <<>>
  /\ Len(calc.disk) = 2
  /\ calc.disk[1].lastModified # calc.disk[2].lastModified
  /\ Len(calc.fileData[1]) = 2

\* ------------------------------------------------------------ bucket order

Recency(seg) == CASE seg = "before" -> 1
                  [] seg = "lastWeek" -> 2
                  [] seg = "today" -> 3

\* C27: in the generations that split the file contents by recency, the
\* bucket segments of a submitted request come in the order before,
\* lastWeek, today.
C27_BucketOrder ==
  Submitted =>
    \A i, j \in DOMAIN calc.request[1] :
      (/\ i < j
       /\ calc.request[1][i].seg \in Buckets
       /\ calc.request[1][j].seg \in Buckets) =>
        Recency(calc.request[1][i].seg) < Recency(calc.request[1][j].seg)

\* ------------------------------------------------------------ end of input

\* The generation asks for confirmation.
Confirms ==
  \E k \in DOMAIN Flow(env.variant) : Flow(env.variant)[k] = "confirmLoop"

\* C28: in the generations with a confirmation prompt the streaming request
\* is issued only if an input equal to 'y' was read: when the input ends
\* before any 'y' or 'n', no streaming request is issued and no output file
\* is written.
C28_OnlyAfterYes ==
  (Confirms /\ (streamCalls > 0 \/ Printed("written"))) =>
    \E k \in DOMAIN inputs : SaysYes(inputs[k])

\* ------------------------------------------------------------ termination

\* C29: every run terminates: if every read and every remote call completes
\* or fails, the run reaches Done (the output written) or exits, unless it
\* waits in the confirmation loop for ever, which is the only place where
\* it can.
C29_Terminates ==
  <>[](pc = "confirmLoop") \/ <>(pc \in {"done", "exited"})

\* The run has gone through the confirmation loop and is done.
C29_Witness ==
  /\ pc = "done"
  /\ Confirms
  /\ inputs # <<>>
  /\ Printed("written")

====
